---- MODULE Spec2Model ----
(***************************************************************************)
(* Model of _scripts/nr.py: the script that maps a card spec string        *)
(* (number, shape, color, shading) to the name of the card's image file.   *)
(*                                                                         *)
(* A Python str is modelled as a sequence of one-character strings, so     *)
(* that indexing, zip and find are computed as Python computes them.       *)
(* One invocation of the script is one process: the four statements of    *)
(* the module body are the steps ReadArg, Lookup, SumStep and PrintLine.   *)
(***************************************************************************)
EXTENDS Integers, Sequences, FiniteSets

VARIABLES
  argv,    \* sys.argv of the running process: <<program name>> or <<program name, argument>>
  pc,      \* statement about to run: "read", "lookup", "sum", "print"; or "done" / "failed"
  spec,    \* the module global spec (line 8)
  t,       \* the module global t (line 9)
  n,       \* the module global n (line 10)
  stdout,  \* the lines the process has printed
  exc,     \* the uncaught exception that ended the process, or "none"
  prev     \* history: argv, end state and output of the previous invocation

vars == <<argv, pc, spec, t, n, stdout, exc, prev>>

----------------------------------------------------------------------------
(* Bounds of the model.                                                    *)

\* The most characters an argument has beyond the first four.
MaxExtra == 1

----------------------------------------------------------------------------
(* The constants of the script.                                            *)

shading == <<"f", "h", "e">>
shape == <<"s", "d", "o">>
color == <<"r", "p", "g">>
number == <<"1", "2", "3">>

\* The tuple with its last two alphabets exchanged (shading before color).
RefsShadingFirst == <<number, shape, shading, color>>

\* The tuple the lookup zips with spec (line 9).
Refs == <<number, shape, color, shading>>

\* Weights with the two middle ones exchanged (the order of a plain base-3 number).
WeightsAscending == <<1, 3, 9, 27>>

\* Weights that give shape and color the same weight.
WeightsRepeated == <<1, 3, 3, 27>>

\* The list the sum zips with t (line 10).
Weights == <<1, 9, 3, 27>>

\* The literal text of the format string after its replacement field (line 11).
Ext == <<".", "p", "n", "g">>

\* sys.argv[0].
ProgName == <<"n", "r", ".", "p", "y">>

----------------------------------------------------------------------------
(* Python's built-ins, as the script uses them.                            *)

Min(a, b) == IF a <= b THEN a ELSE b

Max(a, b) == IF a >= b THEN a ELSE b

\* r.find(a) for a one-character a: the lowest zero-based index of a in r, -1 if
\* a does not occur in r.
Find(r, a) ==
  IF \E i \in 1..Len(r) : r[i] = a
    THEN (CHOOSE i \in 1..Len(r) : r[i] = a /\ \A j \in 1..(i - 1) : r[j] # a) - 1
    ELSE -1

\* A zip that runs to the end of the longer argument, repeating the last
\* element of the shorter one (nothing when one of them is empty).
ZipPad(xs, ys) ==
  IF Len(xs) = 0 \/ Len(ys) = 0
    THEN <<>>
    ELSE [i \in 1..Max(Len(xs), Len(ys)) |->
            <<xs[Min(i, Len(xs))], ys[Min(i, Len(ys))]>>]

\* zip(xs, ys): the pairs up to the end of the shorter argument.
Zip(xs, ys) == [i \in 1..Min(Len(xs), Len(ys)) |-> <<xs[i], ys[i]>>]

RECURSIVE SumSeq(_)
\* sum(...) over a finite sequence of integers, starting from 0.
SumSeq(xs) == IF Len(xs) = 0 THEN 0 ELSE xs[1] + SumSeq(Tail(xs))

DigitChars == <<"0", "1", "2", "3", "4", "5", "6", "7", "8", "9">>

RECURSIVE DigitsOf(_)
\* The decimal digits of a natural number, most significant first.
DigitsOf(k) ==
  IF k < 10
    THEN <<DigitChars[k + 1]>>
    ELSE Append(DigitsOf(k \div 10), DigitChars[(k % 10) + 1])

\* str(k) for an int k, as the replacement field {} renders it.
IntStr(k) == IF k < 0 THEN <<"-">> \o DigitsOf(-k) ELSE DigitsOf(k)

----------------------------------------------------------------------------
(* The expressions of the module body.                                     *)

\* [r.find(a) for (r,a) in zip((number,shape,color,shading),spec)]   (line 9)
LookupAll(s) ==
  LET z == Zip(Refs, s)
  IN  [i \in 1..Len(z) |-> Find(z[i][1], z[i][2])]

\* sum(x*y for (x,y) in zip(t,[1,9,3,27]))   (line 10)
WeightedSum(tt) ==
  LET z == Zip(tt, Weights)
  IN  SumSeq([i \in 1..Len(z) |-> z[i][1] * z[i][2]])

\* The format call without the + 1.
FilenameNoOffset(k) == IntStr(k) \o Ext

\* '{}.png'.format(n+1)   (line 11)
Filename(k) == IntStr(k + 1) \o Ext

\* What lines 9 to 11 print when spec is s.
Output(s) == Filename(WeightedSum(LookupAll(s)))

----------------------------------------------------------------------------
(* The arguments the model runs the script on.                             *)

NumRefs == Len(Refs)

\* Every character of the four alphabets.
Chars == UNION {{r[i] : i \in 1..Len(r)} : r \in {number, shape, color, shading}}

\* The characters an argument may have after its fourth: one that belongs to
\* an alphabet and one that belongs to none.
ExtraChars == {"1", "x"}

Strings(S, k) == [1..k -> S]

Extras == UNION {Strings(ExtraChars, j) : j \in 1..MaxExtra}

\* All strings of at most four characters over Chars, and all strings of four
\* characters over Chars followed by at most MaxExtra extra characters.
Args ==
  UNION {Strings(Chars, k) : k \in 0..NumRefs}
    \cup {s \o x : s \in Strings(Chars, NumRefs), x \in Extras}

\* For the specification with repeated invocations: per position, one character
\* of that position's alphabet and one character that is not in it.
RepeatPos == <<{"2", "s"}, {"d", "f"}, {"g", "3"}, {"h", "r"}>>

RepeatArgs ==
  {a \in Args : \A i \in 1..Min(Len(a), NumRefs) : a[i] \in RepeatPos[i]}

NoPrev == [argv |-> <<>>, pc |-> "none", stdout |-> <<>>]

Terminated == pc \in {"done", "failed"}

----------------------------------------------------------------------------
(* The state machine.                                                      *)

Start(a) ==
  /\ argv \in {<<ProgName>>} \cup {<<ProgName, s>> : s \in a}
  /\ pc = "read"
  /\ spec = <<>>
  /\ t = <<>>
  /\ n = 0
  /\ stdout = <<>>
  /\ exc = "none"
  /\ prev = NoPrev

Init == Start(Args)

InitRepeat == Start(RepeatArgs)

\* A read of the argument that falls back to the empty string when there is none.
ReadArgDefault ==
  /\ pc = "read"
  /\ spec' = IF Len(argv) >= 2 THEN argv[2] ELSE <<>>
  /\ pc' = "lookup"
  /\ UNCHANGED <<argv, t, n, stdout, exc, prev>>

\* spec = sys.argv[1]: IndexError, uncaught, when there is no argument.
ReadArg ==
  /\ pc = "read"
  /\ IF Len(argv) >= 2
       THEN /\ spec' = argv[2]
            /\ pc' = "lookup"
            /\ exc' = exc
       ELSE /\ spec' = spec
            /\ pc' = "failed"
            /\ exc' = "IndexError"
  /\ UNCHANGED <<argv, t, n, stdout, prev>>

\* t = [r.find(a) for (r,a) in zip((number,shape,color,shading),spec)]
Lookup ==
  /\ pc = "lookup"
  /\ t' = LookupAll(spec)
  /\ pc' = "sum"
  /\ UNCHANGED <<argv, spec, n, stdout, exc, prev>>

\* The sum added to what n holds (n += ...).
SumStepAccumulate ==
  /\ pc = "sum"
  /\ n' = n + WeightedSum(t)
  /\ pc' = "print"
  /\ UNCHANGED <<argv, spec, t, stdout, exc, prev>>

\* n = sum(x*y for (x,y) in zip(t,[1,9,3,27]))
SumStep ==
  /\ pc = "sum"
  /\ n' = WeightedSum(t)
  /\ pc' = "print"
  /\ UNCHANGED <<argv, spec, t, stdout, exc, prev>>

\* A print that is tried a second time.
PrintLineRetry ==
  /\ pc = "print"
  /\ stdout' = Append(stdout, Filename(n))
  /\ pc' = IF Len(stdout) = 0 THEN "print" ELSE "done"
  /\ UNCHANGED <<argv, spec, t, n, exc, prev>>

\* print('{}.png'.format(n+1)), after which the module body ends.
PrintLine ==
  /\ pc = "print"
  /\ stdout' = Append(stdout, Filename(n))
  /\ pc' = "done"
  /\ UNCHANGED <<argv, spec, t, n, exc, prev>>

\* The script is run again, as a new process, on argument a (or on none).
\* The new process has no binding for spec, t and n; the model leaves in
\* them what the last process left, so that a statement that read one of
\* them before assigning it would make the run depend on the run before.
Reinvoke(a) ==
  /\ Terminated
  /\ prev' = [argv |-> argv, pc |-> pc, stdout |-> stdout]
  /\ argv' = a
  /\ pc' = "read"
  /\ stdout' = <<>>
  /\ exc' = "none"
  /\ UNCHANGED <<spec, t, n>>

Next == ReadArg \/ Lookup \/ SumStep \/ PrintLine

NextRepeat ==
  \/ Next
  \/ \E a \in {<<ProgName>>} \cup {<<ProgName, s>> : s \in RepeatArgs} : Reinvoke(a)

\* One invocation of the script.
Spec == Init /\ [][Next]_vars

\* One invocation; the interpreter runs each statement once it is reached.
FairSpec == Spec /\ WF_vars(Next)

\* Invocation after invocation.
SpecRepeat == InitRepeat /\ [][NextRepeat]_vars

----------------------------------------------------------------------------
(* What the claims speak of.                                               *)

HasArg == Len(argv) >= 2

Arg == argv[2]

InAlphabet(c, r) == \E i \in 1..Len(r) : r[i] = c

\* The alphabet of each position: number, shape, color, shading.
PosAlphabet == <<number, shape, color, shading>>

\* A valid spec string: four characters, each in the alphabet of its position.
ValidSpec(s) ==
  /\ Len(s) = Len(PosAlphabet)
  /\ \A i \in 1..Len(PosAlphabet) : InAlphabet(s[i], PosAlphabet[i])

ValidSpecs == {s \in Strings(Chars, Len(PosAlphabet)) : ValidSpec(s)}

ValidRun == HasArg /\ ValidSpec(Arg)

\* The zero-based index of c in alphabet r (c occurs in r, once).
IndexIn(r, c) == CHOOSE k \in 0..(Len(r) - 1) : r[k + 1] = c

\* 1 + i0*1 + i1*9 + i2*3 + i3*27 for a valid spec s.
ExpectedInt(s) ==
  1 + IndexIn(number, s[1]) * 1 + IndexIn(shape, s[2]) * 9
    + IndexIn(color, s[3]) * 3 + IndexIn(shading, s[4]) * 27

IsDigit(c) == c \in {"0", "1", "2", "3", "4", "5", "6", "7", "8", "9"}

DigitValue(c) ==
  CASE c = "0" -> 0 [] c = "1" -> 1 [] c = "2" -> 2 [] c = "3" -> 3 [] c = "4" -> 4
    [] c = "5" -> 5 [] c = "6" -> 6 [] c = "7" -> 7 [] c = "8" -> 8 [] c = "9" -> 9

RECURSIVE DecValue(_)
\* The number a nonempty sequence of decimal digits denotes.
DecValue(ds) ==
  IF Len(ds) = 1
    THEN DigitValue(ds[1])
    ELSE 10 * DecValue(SubSeq(ds, 1, Len(ds) - 1)) + DigitValue(ds[Len(ds)])

\* The part of a line before its last four characters.
Stem(line) == SubSeq(line, 1, Len(line) - 4)

\* line has the form <integer>.png: decimal digits, no sign and no leading
\* zero, then ".png".
IsPngName(line) ==
  /\ Len(line) > 4
  /\ SubSeq(line, Len(line) - 3, Len(line)) = <<".", "p", "n", "g">>
  /\ \A i \in 1..(Len(line) - 4) : IsDigit(line[i])
  /\ (Len(line) > 5 => line[1] # "0")

\* line is <integer>.png with the integer in lo..hi.
IsPngNameIn(line, lo, hi) == IsPngName(line) /\ DecValue(Stem(line)) \in lo..hi

\* Some one of the first four characters of s is not in its position's alphabet.
HasAbsentChar(s) ==
  \E i \in 1..Min(Len(s), Len(PosAlphabet)) : ~InAlphabet(s[i], PosAlphabet[i])

----------------------------------------------------------------------------
(* The claims.                                                             *)

\* C1: when an invocation on a valid spec c0c1c2c3 has ended, the one line it
\* printed is the decimal rendering of 1 + i0*1 + i1*9 + i2*3 + i3*27 followed
\* by ".png", i_k being the zero-based index of c_k in its own alphabet.
C1_Encoding ==
  (pc = "done" /\ ValidRun) =>
    /\ Len(stdout) = 1
    /\ IsPngName(stdout[1])
    /\ DecValue(Stem(stdout[1])) = ExpectedInt(Arg)

\* C1's case: "2dgh" (indices 1, 1, 2, 1) has printed 44.png.
C1_Witness ==
  /\ pc = "done"
  /\ HasArg
  /\ Arg = <<"2", "d", "g", "h">>
  /\ stdout = << <<"4", "4", ".", "p", "n", "g">> >>

\* C2: for every valid spec, the output has the form <integer>.png and the
\* integer lies in 1..81.
C2_Range ==
  (pc = "done" /\ ValidRun) =>
    /\ Len(stdout) = 1
    /\ IsPngNameIn(stdout[1], 1, 81)

\* C2's case: a valid spec has printed the name at the top of the range.
C2_Witness ==
  /\ pc = "done"
  /\ ValidRun
  /\ stdout = << <<"8", "1", ".", "p", "n", "g">> >>

\* C3 (as claimed): when one of the first four characters of the argument is
\* absent from its position's alphabet, the invocation fails and prints no
\* filename.
C3_AbsentCharFails ==
  (Terminated /\ HasArg /\ HasAbsentChar(Arg)) => (pc = "failed" /\ stdout = <<>>)

\* C4 (as claimed): when the argument has fewer than four characters, the
\* invocation fails and prints no filename.
C4_ShortArgFails ==
  (Terminated /\ HasArg /\ Len(Arg) < Len(PosAlphabet)) =>
    (pc = "failed" /\ stdout = <<>>)

\* C5: when the positional argument is missing, the invocation ends with an
\* uncaught IndexError at the read of the argument, before any lookup or
\* computation (t and n are never assigned), and nothing is printed.
C5_MissingArg ==
  /\ [](~HasArg =>
          /\ pc \in {"read", "failed"}
          /\ (pc = "failed" => exc = "IndexError")
          /\ spec = <<>> /\ t = <<>> /\ n = 0
          /\ stdout = <<>>)
  /\ (~HasArg ~> (pc = "failed" /\ stdout = <<>>))

\* C5's case: the invocation without an argument has ended in the IndexError.
C5_Witness == ~HasArg /\ pc = "failed" /\ exc = "IndexError" /\ stdout = <<>>

\* C6: the weighted sums of the valid specs are exactly 0..80, and the mapping
\* from the 81 valid specs to the printed integer is a bijection onto 1..81:
\* what an invocation on a valid spec printed is that mapping's value, every
\* integer of 1..81 is the value of some valid spec, and no two valid specs
\* have the same value.
C6_Bijection ==
  (pc = "done" /\ ValidRun) =>
    /\ stdout = <<Output(Arg)>>
    /\ Cardinality(ValidSpecs) = 81
    /\ {WeightedSum(LookupAll(s)) : s \in ValidSpecs} = 0..80
    /\ \A s \in ValidSpecs : IsPngName(Output(s))
    /\ {DecValue(Stem(Output(s))) : s \in ValidSpecs} = 1..81
    /\ \A s1, s2 \in ValidSpecs : Output(s1) = Output(s2) => s1 = s2

\* C6's case: a valid spec has printed the name at the bottom of the range.
C6_Witness ==
  /\ pc = "done"
  /\ ValidRun
  /\ stdout = << <<"1", ".", "p", "n", "g">> >>

C8_Terminates ==
  /\ [](ValidRun => Len(stdout) <= 1)
  /\ []((ValidRun /\ Terminated) => (pc = "done" /\ stdout = <<Filename(n)>>))
  /\ ((ValidRun /\ pc = "read") ~> (ValidRun /\ pc = "done" /\ Len(stdout) = 1))

\* C8's case: a valid spec's invocation has ended with its one line.
C8_Witness ==
  /\ pc = "done"
  /\ ValidRun
  /\ exc = "none"
  /\ stdout = <<Filename(n)>>
  /\ t = <<2, 0, 1, 0>>

\* C9 (as claimed): "1sfr" and "2dgh" are each valid (the lookup finds every
\* character in the alphabet of its position) and each prints a filename
\* whose integer lies in 1..81.
C9_ExamplesValid ==
  (pc = "done" /\ HasArg
     /\ Arg \in {<<"1", "s", "f", "r">>, <<"2", "d", "g", "h">>}) =>
    /\ ValidSpec(Arg)
    /\ \A i \in 1..Len(t) : t[i] # -1
    /\ Len(stdout) = 1
    /\ IsPngNameIn(stdout[1], 1, 81)

\* C9 (amended): "2dgh" is valid and prints a filename whose integer lies in
\* 1..81; "1sfr" is not valid: the lookup finds its first two characters and
\* does not find its third in the colors nor its fourth in the shadings, and
\* what it prints is not a filename with an integer in 1..81.
C9_Examples ==
  /\ (pc = "done" /\ HasArg /\ Arg = <<"2", "d", "g", "h">>) =>
       /\ ValidSpec(Arg)
       /\ \A i \in 1..Len(t) : t[i] # -1
       /\ Len(stdout) = 1
       /\ IsPngNameIn(stdout[1], 1, 81)
  /\ (pc = "done" /\ HasArg /\ Arg = <<"1", "s", "f", "r">>) =>
       /\ ~ValidSpec(Arg)
       /\ t[1] # -1 /\ t[2] # -1 /\ t[3] = -1 /\ t[4] = -1
       /\ Len(stdout) = 1
       /\ ~IsPngNameIn(stdout[1], 1, 81)

\* C9's case: the invocation on "1sfr" has ended, its third and fourth
\* characters not found.
C9_Witness ==
  /\ pc = "done"
  /\ HasArg
  /\ Arg = <<"1", "s", "f", "r">>
  /\ t = <<0, 0, -1, -1>>
  /\ Len(stdout) = 1

\* C10: characters after the fourth are ignored: an invocation whose argument
\* has at least four characters ends as the invocation before it did, and has
\* printed the same lines, when that one's argument had at least four
\* characters and the same first four (so the output for s followed by x is
\* the output for s).
C10_ExtraIgnored ==
  (/\ Terminated
   /\ HasArg
   /\ Len(prev.argv) >= 2
   /\ Len(Arg) >= 4
   /\ Len(prev.argv[2]) >= 4
   /\ SubSeq(Arg, 1, 4) = SubSeq(prev.argv[2], 1, 4)) =>
    (pc = prev.pc /\ stdout = prev.stdout)

\* C10's case: the run before was on a four-character s, this one on s
\* followed by one more character, and both have printed.
C10_Witness ==
  /\ pc = "done"
  /\ HasArg
  /\ Len(prev.argv) >= 2
  /\ Len(prev.argv[2]) = 4
  /\ Len(Arg) > 4
  /\ SubSeq(Arg, 1, 4) = prev.argv[2]
  /\ Len(stdout) = 1
  /\ stdout = prev.stdout

====
